---- MODULE Spec2Model ----
(***************************************************************************)
(* A model of consolidate_migrations.py: one invocation of main(), from    *)
(* argument parsing (or the interactive menu) through discovery, backup,   *)
(* consolidation, rename-to-init and deletion, over a file system that may *)
(* fail any I/O call.                                                      *)
(*                                                                         *)
(* File names are sequences of one-character strings, so that startswith,  *)
(* endswith and the byte-wise sort are computed as Python computes them.   *)
(* File contents are sequences of strings: the characters of a migration   *)
(* file, and the literal pieces the program writes.                        *)
(***************************************************************************)
EXTENDS Naturals, Sequences, FiniteSets, TLC

VARIABLES
    pc,              \* position of the process in main / consolidate_migrations
    options,         \* the options dict
    dir,             \* MIGRATIONS_DIR: file name -> content (files only)
    rootExists,      \* os.path.exists(BACKUP_DIR)
    subdirs,         \* BACKUP_DIR/migrations_backup_<ts>/: ts -> (name -> content)
    rootArtifacts,   \* BACKUP_DIR/consolidated_migration_<ts>.sql: ts -> content
    rootBaks,        \* BACKUP_DIR/<init_filename>.bak: init_filename -> content
    clock,           \* datetime.datetime.now(), in seconds
    migration_files, \* the sorted list of discovered file names
    idx,             \* position of the running for-loop in migration_files
    backup_subdir,   \* timestamp of this run's backup subdirectory, or NoDir
    removed,         \* names os.remove'd by delete_migrations in this run
    err,             \* the exception that ended the run, or "none"
    failedAt,        \* the pc at which the exception was raised, or "none"
    confirmation,    \* the answer to the delete prompt, or NoAnswer
    pre              \* the file system as it was when main() started

vars == <<pc, options, dir, rootExists, subdirs, rootArtifacts, rootBaks, clock,
          migration_files, idx, backup_subdir, removed, err, failedAt,
          confirmation, pre>>

----------------------------------------------------------------------------
(* Bounds *)

\* Longest content of the migration file whose content varies.
MaxLen == 1
\* Seconds the clock can advance during the run.
MaxClock == 1

----------------------------------------------------------------------------
(* Strings *)

\* The characters file names are made of, in code point order.
Alphabet == <<".", "1", "2", "8", "9", "_",
              "a", "b", "c", "d", "e", "g", "h", "i", "k", "l", "m", "n", "o",
              "p", "q", "r", "s", "t", "u">>

Ord(c) == CHOOSE i \in 1..Len(Alphabet) : Alphabet[i] = c

\* str.__lt__: code point by code point, a proper prefix first.
RECURSIVE StrLess(_, _)
StrLess(a, b) ==
    IF b = <<>> THEN FALSE
    ELSE IF a = <<>> THEN TRUE
    ELSE IF Head(a) = Head(b) THEN StrLess(Tail(a), Tail(b))
    ELSE Ord(Head(a)) < Ord(Head(b))

StartsWith(s, p) == Len(p) <= Len(s) /\ SubSeq(s, 1, Len(p)) = p

EndsWith(s, p) == Len(p) <= Len(s) /\ SubSeq(s, Len(s) - Len(p) + 1, Len(s)) = p

\* str.lower() on the characters a confirmation answer is made of.
LowerChar(c) == IF c = "Y" THEN "y" ELSE IF c = "N" THEN "n" ELSE c

Lower(s) == [i \in 1..Len(s) |-> LowerChar(s[i])]

\* str.strip() on the answers the menu reads (blanks at either end).
RECURSIVE LStrip(_)
LStrip(s) == IF s # <<>> /\ Head(s) = " " THEN LStrip(Tail(s)) ELSE s

RECURSIVE RStrip(_)
RStrip(s) ==
    IF s # <<>> /\ s[Len(s)] = " " THEN RStrip(SubSeq(s, 1, Len(s) - 1)) ELSE s

Strip(s) == RStrip(LStrip(s))

\* list.sort() of a set of distinct names.
RECURSIVE SortNames(_)
SortNames(S) ==
    IF S = {} THEN <<>>
    ELSE LET m == CHOOSE x \in S : \A y \in S \ {x} : StrLess(x, y)
         IN  <<m>> \o SortNames(S \ {m})

----------------------------------------------------------------------------
(* Paths *)

CONSOLIDATED_MIGRATION ==
    <<"c", "o", "n", "s", "o", "l", "i", "d", "a", "t", "e", "d", "_",
      "m", "i", "g", "r", "a", "t", "i", "o", "n">>

SqlExt == <<".", "s", "q", "l">>

OUTPUT_FILE == CONSOLIDATED_MIGRATION \o SqlExt

\* Variant: the sections are written straight into the output file.
DirectOutput == OUTPUT_FILE

TEMP_FILE == OUTPUT_FILE \o <<".", "t", "m", "p">>

\* The name of BACKUP_DIR inside MIGRATIONS_DIR.
BACKUPS == <<"b", "a", "c", "k", "u", "p", "s">>

InitialSchema ==
    <<"_", "i", "n", "i", "t", "i", "a", "l", "_", "s", "c", "h", "e", "m", "a">>

\* f"{timestamp}_initial_schema"
InitPrefix(timestamp) == timestamp \o InitialSchema

\* f"{timestamp}_initial_schema.sql"
InitFilename(timestamp) == InitPrefix(timestamp) \o SqlExt

----------------------------------------------------------------------------
(* Text and binary I/O *)

\* What the script runs on: os.linesep of a POSIX system.
LineSep == <<"\n">>

\* infile.read() of a file opened with open(path, 'r'): universal newlines,
\* "\r\n" and a lone "\r" are returned as "\n".
RECURSIVE ReadText(_)
ReadText(bytes) ==
    IF bytes = <<>> THEN <<>>
    ELSE IF Head(bytes) = "\r"
         THEN IF Len(bytes) >= 2 /\ bytes[2] = "\n"
              THEN <<"\n">> \o ReadText(Tail(Tail(bytes)))
              ELSE <<"\n">> \o ReadText(Tail(bytes))
         ELSE <<Head(bytes)>> \o ReadText(Tail(bytes))

\* outfile.write(text) of a file opened with open(path, 'w'): "\n" is
\* written as os.linesep.
RECURSIVE WriteText(_)
WriteText(text) ==
    IF text = <<>> THEN <<>>
    ELSE (IF Head(text) = "\n" THEN LineSep ELSE <<Head(text)>>)
         \o WriteText(Tail(text))

\* shutil.copy2 copies the bytes of the source.
CopyBytes(bytes) == bytes

\* content.endswith('\n')
EndsWithNewline(content) == content # <<>> /\ content[Len(content)] = "\n"

----------------------------------------------------------------------------
(* The file system *)

EmptyDir == [n \in {} |-> <<>>]

Exists(d, name) == name \in DOMAIN d

PutFile(d, name, bytes) ==
    [n \in DOMAIN d \cup {name} |-> IF n = name THEN bytes ELSE d[n]]

RemoveFile(d, name) == [n \in DOMAIN d \ {name} |-> d[n]]

\* What a failed copy can leave at its destination: nothing written (the
\* destination as it was) or the destination opened and truncated.
CopyFaultOutcomes(d, name) == {d, PutFile(d, name, <<>>)}

\* strftime("%Y%m%d_%H%M%S") names a second; the model names it by its number.
\* strftime('%Y-%m-%d %H:%M:%S') of the same second, as written in the header.
ClockText ==
    <<"2024-01-03 00:00:00", "2024-01-03 00:00:01", "2024-01-03 00:00:02",
      "2024-01-03 00:00:03", "2024-01-03 00:00:04">>

CreatedOn(t) == ClockText[t + 1]

\* The clock values a call of datetime.datetime.now() can return.
Now == clock..MaxClock

----------------------------------------------------------------------------
(* Inputs *)

\* Timestamps for the init file: strftime("%Y%m%d") of today, and one a user
\* may type or pass with -t.
Today == <<"9">>

Timestamps == {<<"8">>, <<"9">>}

Bytes == {"a", "\n", "\r"}

ContentsUpTo(n) == UNION {[1..k -> Bytes] : k \in 0..n}

File1 == <<"1">> \o SqlExt

File2 == <<"2">> \o SqlExt

OldInit == InitFilename(Today)

\* Marks a file that is not there in the choice of an initial directory.
Absent == <<"<absent>">>

AbsentOr(S) == S \cup {Absent}

MkDir(choice) ==
    LET present == {n \in DOMAIN choice : choice[n] # Absent}
    IN  [n \in present |-> choice[n]]

\* The directories a run can start in: up to two migration files, a previous
\* consolidated file, a previous init file of today, a temp file left by a
\* failed run.
InitialDirs ==
    {MkDir(File1 :> c1 @@ File2 :> c2 @@ OUTPUT_FILE :> a @@ OldInit :> i
           @@ TEMP_FILE :> t) :
        c1 \in AbsentOr(ContentsUpTo(MaxLen)),
        c2 \in AbsentOr({<<"b">>}),
        a \in AbsentOr({<<"-- previous consolidated file", "\n">>}),
        i \in AbsentOr({<<"-- previous init file">>}),
        t \in AbsentOr({<<"-- stale temp">>})}

\* The backup roots a run can start with: none, an empty one, and one that
\* earlier runs (the last of them in the current second) have filled.
InitialRoots ==
    { [exists |-> FALSE, subdirs |-> EmptyDir, artifacts |-> EmptyDir,
       baks |-> EmptyDir],
      [exists |-> TRUE, subdirs |-> EmptyDir, artifacts |-> EmptyDir,
       baks |-> EmptyDir],
      [exists |-> TRUE,
       subdirs |-> (0 :> (File1 :> <<"a">>)),
       artifacts |-> (0 :> <<"-- older consolidated file", "\n">>),
       baks |-> (OldInit :> <<"-- older init file">>)] }

\* What the user can type at the menu prompt, at the timestamp prompt and at
\* the delete confirmation.
MenuInputs == {<<"1">>, <<"2">>, <<"3">>, <<"4">>, <<"5">>, <<"7">>, <<>>, <<" ", "1">>}

TimestampInputs == {<<>>, <<" ">>, <<"8">>, <<" ", "8">>}

ConfirmInputs == {<<"y">>, <<"Y">>, <<"n">>, <<>>, <<"y", "e", "s">>, <<" ", "y">>}

NoDir == MaxClock + 1

\* The value of confirmation before input() at line 260 has returned.
NoAnswer == <<"<none>">>

----------------------------------------------------------------------------
(* main: options from the command line, or from the menu *)

DefaultOptions ==
    [backup |-> TRUE, delete |-> FALSE, rename |-> FALSE, timestamp |-> Today]

\* args.interactive or (not any([args.backup, args.delete, args.rename, args.timestamp]))
UseMenu(args) ==
    args.interactive
    \/ ~(args.backup \/ args.delete \/ args.rename \/ args.timestamp # <<>>)

OptionsFromArgs(args) ==
    [backup |-> args.backup, delete |-> args.delete, rename |-> args.rename,
     timestamp |-> IF args.timestamp # <<>> THEN args.timestamp ELSE Today]

Init ==
    /\ pc = "main"
    /\ options = DefaultOptions
    /\ dir \in InitialDirs
    /\ \E r \in InitialRoots :
        /\ rootExists = r.exists
        /\ subdirs = r.subdirs
        /\ rootArtifacts = r.artifacts
        /\ rootBaks = r.baks
    /\ clock = 0
    /\ migration_files = <<>>
    /\ idx = 1
    /\ backup_subdir = NoDir
    /\ removed = {}
    /\ err = "none"
    /\ failedAt = "none"
    /\ confirmation = NoAnswer
    /\ pre = [dir |-> dir, rootExists |-> rootExists, subdirs |-> subdirs,
              rootArtifacts |-> rootArtifacts, rootBaks |-> rootBaks]

fs == <<dir, rootExists, subdirs, rootArtifacts, rootBaks>>

run == <<migration_files, idx, backup_subdir, removed>>

BackupStages == {"backup_dir", "backup_mkdir", "backup_copy"}

\* Variant: a failure of the backup is caught and the run goes on.
LogAndContinue(exception) ==
    /\ pc' = IF pc \in BackupStages THEN "open_temp" ELSE "failed"
    /\ err' = exception
    /\ failedAt' = pc

RenameStages == {"init_backup", "init_remove", "init_copy"}

\* Variant: a failure of rename_to_init is caught and the run goes on to the
\* delete stage.
SkipFailedRename(exception) ==
    /\ pc' = IF pc \in RenameStages
             THEN IF options.delete /\ options.backup THEN "confirm" ELSE "done"
             ELSE "failed"
    /\ err' = exception
    /\ failedAt' = pc

\* An exception propagates out of main: nothing later runs.
Raise(exception) ==
    /\ pc' = "failed"
    /\ err' = exception
    /\ failedAt' = pc

Goto(next) ==
    /\ pc' = next
    /\ UNCHANGED <<err, failedAt>>

\* main(), lines 278-300: parse the flags, build the options or show the menu.
Main ==
    /\ pc = "main"
    /\ \E args \in [backup : BOOLEAN, delete : BOOLEAN, rename : BOOLEAN,
                    timestamp : {<<>>} \cup Timestamps, interactive : BOOLEAN] :
        IF UseMenu(args)
        THEN /\ options' = DefaultOptions
             /\ Goto("menu")
        ELSE /\ options' = OptionsFromArgs(args)
             /\ Goto("discover")
    /\ UNCHANGED <<fs, clock, run, confirmation, pre>>

\* show_menu, choice '1'
ToggleBackup(o) ==
    LET b == ~o.backup
    IN  [o EXCEPT !.backup = IF o.delete /\ ~b THEN TRUE ELSE b]

\* Variant: choice '2' toggles delete and leaves backup alone.
ToggleDeleteOnly(o) == [o EXCEPT !.delete = ~o.delete]

\* show_menu, choice '2'
ToggleDelete(o) ==
    LET d == ~o.delete
    IN  [o EXCEPT !.delete = d, !.backup = IF d /\ ~o.backup THEN TRUE ELSE o.backup]

\* show_menu, choice '3', with the answer to the timestamp prompt
ToggleRename(o, answer) ==
    LET r == ~o.rename
    IN  [o EXCEPT !.rename = r,
                  !.timestamp = IF r /\ Strip(answer) # <<>>
                                THEN Strip(answer) ELSE o.timestamp]

\* show_menu, lines 145-162: the options after a choice that stays in the menu.
MenuChoice(o, choice, answer) ==
    IF choice = <<"1">> THEN ToggleBackup(o)
    ELSE IF choice = <<"2">> THEN ToggleDelete(o)
    ELSE IF choice = <<"3">> THEN ToggleRename(o, answer)
    ELSE o

\* show_menu: one pass of the while loop.
Menu ==
    /\ pc = "menu"
    /\ \E input \in MenuInputs, answer \in TimestampInputs :
        LET choice == Strip(input) IN
        IF choice = <<"5">> THEN
            /\ Goto("cancelled")
            /\ UNCHANGED options
        ELSE IF choice = <<"4">> THEN
            /\ Goto("discover")
            /\ UNCHANGED options
        ELSE
            /\ Goto("menu")
            /\ options' = MenuChoice(options, choice, answer)
    /\ UNCHANGED <<fs, clock, run, confirmation, pre>>

----------------------------------------------------------------------------
(* consolidate_migrations: discovery *)

\* os.listdir(MIGRATIONS_DIR): the files, and the backup directory if there.
ListDir(d, root) == DOMAIN d \cup (IF root THEN {BACKUPS} ELSE {})

\* Variant: every .sql file is a migration.
AnySql(f) == EndsWith(f, SqlExt)

\* f.endswith('.sql') and not f.startswith('consolidated_migration')
IsMigration(f) == EndsWith(f, SqlExt) /\ ~StartsWith(f, CONSOLIDATED_MIGRATION)

\* Variant: the planned init file is not excluded.
DiscoverWithoutInitExclusion(d, root, opts) ==
    SortNames({f \in DOMAIN d \cup (IF root THEN {BACKUPS} ELSE {}) :
                 EndsWith(f, SqlExt) /\ ~StartsWith(f, CONSOLIDATED_MIGRATION)})

\* Lines 177-185: filter, exclude the planned init file, sort.
DiscoverFiles(d, root, opts) ==
    LET listed == {f \in ListDir(d, root) : IsMigration(f)}
        kept == IF opts.rename
                THEN {f \in listed : ~StartsWith(f, InitPrefix(opts.timestamp))}
                ELSE listed
    IN  SortNames(kept)

\* Variant: the backup option is ignored.
SkipBackup(files, opts) == IF files = <<>> THEN "done" ELSE "open_temp"

\* Variant: the empty list is looked at only after the backup.
BackupBeforeEmptyCheck(files, opts) ==
    IF opts.backup THEN "backup_dir"
    ELSE IF files = <<>> THEN "done"
    ELSE "open_temp"

\* Lines 187-197: nothing found ends the run; else the backup, if asked for.
StageAfterDiscover(files, opts) ==
    IF files = <<>> THEN "done"
    ELSE IF opts.backup THEN "backup_dir"
    ELSE "open_temp"

Discover ==
    /\ pc = "discover"
    /\ \/ /\ migration_files' = DiscoverFiles(dir, rootExists, options)
          /\ Goto(StageAfterDiscover(migration_files', options))
       \/ /\ Raise("OSError")
          /\ UNCHANGED migration_files
    /\ UNCHANGED <<options, fs, clock, idx, backup_subdir, removed, confirmation, pre>>

----------------------------------------------------------------------------
(* backup *)

\* create_backup_dir, called at line 195 and at line 238.
CreateBackupDir(next) ==
    /\ IF rootExists
       THEN /\ Goto(next)
            /\ UNCHANGED rootExists
       ELSE \/ /\ rootExists' = TRUE
               /\ Goto(next)
            \/ /\ Raise("OSError")
               /\ UNCHANGED rootExists
    /\ UNCHANGED <<options, dir, subdirs, rootArtifacts, rootBaks, clock, run,
                   confirmation, pre>>

BackupDir ==
    /\ pc = "backup_dir"
    /\ CreateBackupDir("backup_mkdir")

\* Variant: os.makedirs(backup_subdir, exist_ok=True).
BackupMkdirExistOk ==
    /\ pc = "backup_mkdir"
    /\ \E t \in Now :
        /\ clock' = t
        /\ \/ /\ subdirs' = IF t \in DOMAIN subdirs THEN subdirs
                             ELSE PutFile(subdirs, t, EmptyDir)
              /\ backup_subdir' = t
              /\ idx' = 1
              /\ Goto("backup_copy")
           \/ /\ Raise("OSError")
              /\ UNCHANGED <<subdirs, backup_subdir, idx>>
    /\ UNCHANGED <<options, dir, rootExists, rootArtifacts, rootBaks,
                   migration_files, removed, confirmation, pre>>

\* backup_migrations, lines 63-66: os.makedirs of the timestamped directory.
BackupMkdir ==
    /\ pc = "backup_mkdir"
    /\ \E t \in Now :
        /\ clock' = t
        /\ IF t \in DOMAIN subdirs
           THEN /\ Raise("FileExistsError")
                /\ UNCHANGED <<subdirs, backup_subdir, idx>>
           ELSE \/ /\ subdirs' = PutFile(subdirs, t, EmptyDir)
                   /\ backup_subdir' = t
                   /\ idx' = 1
                   /\ Goto("backup_copy")
                \/ /\ Raise("OSError")
                   /\ UNCHANGED <<subdirs, backup_subdir, idx>>
    /\ UNCHANGED <<options, dir, rootExists, rootArtifacts, rootBaks,
                   migration_files, removed, confirmation, pre>>

\* backup_migrations, lines 75-79: one pass of the copy loop.
BackupCopy ==
    /\ pc = "backup_copy"
    /\ LET filename == migration_files[idx]
           dst == subdirs[backup_subdir]
       IN  \/ /\ subdirs' = PutFile(subdirs, backup_subdir,
                                    PutFile(dst, filename, CopyBytes(dir[filename])))
              /\ idx' = idx + 1
              /\ Goto(IF idx = Len(migration_files) THEN "open_temp" ELSE "backup_copy")
           \/ /\ \E left \in CopyFaultOutcomes(dst, filename) :
                    subdirs' = PutFile(subdirs, backup_subdir, left)
              /\ Raise("OSError")
              /\ UNCHANGED idx
    /\ UNCHANGED <<options, dir, rootExists, rootArtifacts, rootBaks, clock,
                   migration_files, backup_subdir, removed, confirmation, pre>>

----------------------------------------------------------------------------
(* consolidation *)

Delimiter == "-- ============================================="

\* Lines 202-205: the four header lines and the blank line after them.
Header(files, t) ==
    <<"-- CONSOLIDATED MIGRATION FILE", "\n",
      "-- This file combines all migrations from ">>
    \o files[1] \o <<" through ">> \o files[Len(files)] \o
    <<"\n", "-- Created on ", CreatedOn(t), "\n",
      "-- Created for easier management while preserving original migrations",
      "\n", "\n">>

\* Lines 219-221: the section header of one file.
SectionHeader(filename) ==
    <<Delimiter, "\n", "-- ">> \o filename \o <<"\n", Delimiter, "\n">>

\* Lines 224-231: the content as read, a newline if it does not end with one,
\* and a blank line.
SectionBody(bytes) ==
    LET content == ReadText(bytes)
    IN  content \o (IF ~EndsWithNewline(content) THEN <<"\n">> ELSE <<>>) \o <<"\n">>

Section(filename, bytes) == SectionHeader(filename) \o SectionBody(bytes)

\* Line 200 and lines 202-205: open the temp file and write the header.
OpenTemp ==
    /\ pc = "open_temp"
    /\ \/ \E t \in Now :
            /\ clock' = t
            /\ dir' = PutFile(dir, TEMP_FILE, WriteText(Header(migration_files, t)))
            /\ idx' = 1
            /\ Goto("write_section")
       \/ /\ Raise("OSError")
          /\ UNCHANGED <<clock, dir, idx>>
    /\ UNCHANGED <<options, rootExists, subdirs, rootArtifacts, rootBaks,
                   migration_files, backup_subdir, removed, confirmation, pre>>

\* Variant: the old consolidated file is backed up only with the backup option.
OnlyWhenBackup(d, opts) ==
    IF Exists(d, OUTPUT_FILE) /\ opts.backup THEN "old_dir" ELSE "move"

\* Line 236: the old consolidated file is backed up if there is one.
StageAfterWrite(d, opts) ==
    IF Exists(d, OUTPUT_FILE) THEN "old_dir" ELSE "move"

\* Variant: a failed pass removes the temp file.
TempCleanedUp(d, written, filename) == {RemoveFile(d, TEMP_FILE)}

\* Lines 200-231, when a pass of the loop raises: the with statement closes
\* the temp file and nothing removes it. It holds what was written before the
\* failure: all but this file's section (a failed write), or that and the
\* section header (a failed read).
TempAfterFault(d, written, filename) ==
    {PutFile(d, TEMP_FILE, written),
     PutFile(d, TEMP_FILE, written \o WriteText(SectionHeader(filename)))}

\* Lines 215-233: one pass of the consolidation loop.
WriteSection ==
    /\ pc = "write_section"
    /\ LET filename == migration_files[idx]
           written == dir[TEMP_FILE]
       IN  \/ /\ dir' = PutFile(dir, TEMP_FILE,
                                written \o WriteText(Section(filename, dir[filename])))
              /\ idx' = idx + 1
              /\ Goto(IF idx = Len(migration_files)
                      THEN StageAfterWrite(dir, options) ELSE "write_section")
           \/ /\ dir' \in TempAfterFault(dir, written, filename)
              /\ Raise("OSError")
              /\ UNCHANGED idx
    /\ UNCHANGED <<options, rootExists, subdirs, rootArtifacts, rootBaks, clock,
                   migration_files, backup_subdir, removed, confirmation, pre>>

OldDir ==
    /\ pc = "old_dir"
    /\ CreateBackupDir("old_copy")

\* Lines 239-241: copy the old consolidated file into the backup root.
OldCopy ==
    /\ pc = "old_copy"
    /\ \E t \in Now :
        /\ clock' = t
        /\ \/ /\ rootArtifacts' = PutFile(rootArtifacts, t, CopyBytes(dir[OUTPUT_FILE]))
              /\ Goto("move")
           \/ /\ rootArtifacts' \in CopyFaultOutcomes(rootArtifacts, t)
              /\ Raise("OSError")
    /\ UNCHANGED <<options, dir, rootExists, subdirs, rootBaks, run, confirmation, pre>>

\* Variant: delete does not look at the backup option.
StageDeleteUnguarded(opts) == IF opts.delete THEN "confirm" ELSE "done"

\* Lines 255-264: what the delete option leads to.
StageDelete(opts) ==
    IF opts.delete
    THEN IF ~opts.backup THEN "done" ELSE "confirm"
    ELSE "done"

\* Variant: an existing init file is removed without the .bak copy.
StageRenameNoBak(d, opts) ==
    IF opts.rename
    THEN IF Exists(d, InitFilename(opts.timestamp)) THEN "init_remove" ELSE "init_copy"
    ELSE IF opts.delete
         THEN IF ~opts.backup THEN "done" ELSE "confirm"
         ELSE "done"

\* Lines 251-252 and 109: what the rename option leads to.
StageRename(d, opts) ==
    IF opts.rename
    THEN IF Exists(d, InitFilename(opts.timestamp)) THEN "init_backup" ELSE "init_copy"
    ELSE StageDelete(opts)

\* Line 245: shutil.move within one directory is a rename.
Move ==
    /\ pc = "move"
    /\ \/ /\ dir' = PutFile(RemoveFile(dir, TEMP_FILE), OUTPUT_FILE, dir[TEMP_FILE])
          /\ Goto(StageRename(dir', options))
       \/ /\ Raise("OSError")
          /\ UNCHANGED dir
    /\ UNCHANGED <<options, rootExists, subdirs, rootArtifacts, rootBaks, clock,
                   run, confirmation, pre>>

----------------------------------------------------------------------------
(* rename_to_init *)

\* Lines 110-111: copy the existing init file to BACKUP_DIR/<name>.bak; the
\* copy cannot open its destination when BACKUP_DIR is not there.
InitBackup ==
    /\ pc = "init_backup"
    /\ LET init == InitFilename(options.timestamp)
       IN  IF ~rootExists
           THEN /\ Raise("FileNotFoundError")
                /\ UNCHANGED rootBaks
           ELSE \/ /\ rootBaks' = PutFile(rootBaks, init, CopyBytes(dir[init]))
                   /\ Goto("init_remove")
                \/ /\ rootBaks' \in CopyFaultOutcomes(rootBaks, init)
                   /\ Raise("OSError")
    /\ UNCHANGED <<options, dir, rootExists, subdirs, rootArtifacts, clock, run,
                   confirmation, pre>>

\* Line 113
InitRemove ==
    /\ pc = "init_remove"
    /\ \/ /\ dir' = RemoveFile(dir, InitFilename(options.timestamp))
          /\ Goto("init_copy")
       \/ /\ Raise("OSError")
          /\ UNCHANGED dir
    /\ UNCHANGED <<options, rootExists, subdirs, rootArtifacts, rootBaks, clock,
                   run, confirmation, pre>>

\* Line 116
InitCopy ==
    /\ pc = "init_copy"
    /\ LET init == InitFilename(options.timestamp)
       IN  \/ /\ dir' = PutFile(dir, init, CopyBytes(dir[OUTPUT_FILE]))
              /\ Goto(StageDelete(options))
           \/ /\ dir' \in CopyFaultOutcomes(dir, init)
              /\ Raise("OSError")
    /\ UNCHANGED <<options, rootExists, subdirs, rootArtifacts, rootBaks, clock,
                   run, confirmation, pre>>

----------------------------------------------------------------------------
(* deletion *)

\* Variant: the answer is stripped before it is compared.
ConfirmedLoosely(answer) == Lower(Strip(answer)) = <<"y">>

\* Line 261: confirmation.lower() == 'y'
Confirmed(answer) == Lower(answer) = <<"y">>

\* Lines 260-264
Confirm ==
    /\ pc = "confirm"
    /\ \E answer \in ConfirmInputs :
        /\ confirmation' = answer
        /\ IF Confirmed(answer)
           THEN /\ idx' = 1
                /\ Goto("delete")
           ELSE /\ UNCHANGED idx
                /\ Goto("done")
    /\ UNCHANGED <<options, fs, clock, migration_files, backup_subdir, removed, pre>>

\* delete_migrations, lines 93-96: one pass of the removal loop.
Delete ==
    /\ pc = "delete"
    /\ LET filename == migration_files[idx]
       IN  \/ /\ dir' = RemoveFile(dir, filename)
              /\ removed' = removed \cup {filename}
              /\ idx' = idx + 1
              /\ Goto(IF idx = Len(migration_files) THEN "done" ELSE "delete")
           \/ /\ Raise("OSError")
              /\ UNCHANGED <<dir, removed, idx>>
    /\ UNCHANGED <<options, rootExists, subdirs, rootArtifacts, rootBaks, clock,
                   migration_files, backup_subdir, confirmation, pre>>

----------------------------------------------------------------------------

Next ==
    \/ Main
    \/ Menu
    \/ Discover
    \/ BackupDir
    \/ BackupMkdir
    \/ BackupCopy
    \/ OpenTemp
    \/ WriteSection
    \/ OldDir
    \/ OldCopy
    \/ Move
    \/ InitBackup
    \/ InitRemove
    \/ InitCopy
    \/ Confirm
    \/ Delete

Spec == Init /\ [][Next]_vars

----------------------------------------------------------------------------
(* Properties *)

\* Where the run is, or where it was when it failed.
Position == IF pc = "failed" THEN failedAt ELSE pc

\* consolidate_migrations has ended, by returning or by an exception.
Ended == pc \in {"done", "failed"}

\* Discovery has run.
Discovered == Position \notin {"main", "menu", "discover", "cancelled"}

\* shutil.move at line 245 has put the new content in place.
Replaced ==
    /\ Position \in {"init_backup", "init_remove", "init_copy", "confirm",
                     "delete", "done"}
    /\ migration_files # <<>>

Range(seq) == {seq[i] : i \in 1..Len(seq)}

PlannedInit == InitFilename(options.timestamp)

\* The sections of the files of a directory, one after the other.
RECURSIVE AllSections(_, _)
AllSections(files, d) ==
    IF files = <<>> THEN <<>>
    ELSE WriteText(Section(Head(files), d[Head(files)])) \o AllSections(Tail(files), d)

\* C1: every options record that reaches consolidate_migrations has
\* delete implies backup.
C1_OptionsInvariant ==
    pc = "discover" => (options.delete => options.backup)

\* C2, as claimed: a run with delete and without backup ends with the
\* migration directory as it was before the run.
C2_DirectoryUnchanged ==
    (pc = "done" /\ options.delete /\ ~options.backup) => dir = pre.dir

\* C2, amended: a run with delete and without backup never asks for the
\* confirmation and never removes a file, and every discovered migration file
\* is in the directory with its pre-run content in every state of the run.
C2_MigrationsKept ==
    (Discovered /\ options.delete /\ ~options.backup) =>
        /\ pc \notin {"confirm", "delete"}
        /\ removed = {}
        /\ \A f \in Range(migration_files) :
            Exists(pre.dir, f) /\ Exists(dir, f) /\ dir[f] = pre.dir[f]

C2_Witness ==
    /\ pc = "done"
    /\ options.delete /\ ~options.backup
    /\ Len(migration_files) = 2
    /\ dir # pre.dir

\* C3: every file delete_migrations has removed has a copy of the same name
\* and content in this run's backup subdirectory, which by the first removal
\* holds every discovered file.
C3_RemovedAreBackedUp ==
    removed # {} =>
        /\ backup_subdir \in DOMAIN subdirs
        /\ backup_subdir \notin DOMAIN pre.subdirs
        /\ \A f \in Range(migration_files) :
            /\ Exists(subdirs[backup_subdir], f)
            /\ subdirs[backup_subdir][f] = pre.dir[f]

C3_Witness ==
    /\ pc = "failed"
    /\ failedAt = "delete"
    /\ removed # {}
    /\ \E f \in removed : pre.dir[f] # <<>>

C5_OldArtifactBackedUp ==
    (Replaced /\ Exists(pre.dir, OUTPUT_FILE)) =>
        /\ rootExists
        /\ \E t \in DOMAIN rootArtifacts : rootArtifacts[t] = pre.dir[OUTPUT_FILE]

C5_Witness ==
    /\ Replaced
    /\ Exists(pre.dir, OUTPUT_FILE)
    /\ ~options.backup
    /\ ~pre.rootExists
    /\ dir[OUTPUT_FILE] # pre.dir[OUTPUT_FILE]

\* C6: with the rename option, once the init file that was there before the
\* run is removed or holds other content, the backup root holds its .bak
\* with the pre-run content.
C6_InitBackedUpFirst ==
    (options.rename /\ Exists(pre.dir, PlannedInit)
     /\ (~Exists(dir, PlannedInit) \/ dir[PlannedInit] # pre.dir[PlannedInit])) =>
        /\ rootExists
        /\ Exists(rootBaks, PlannedInit)
        /\ rootBaks[PlannedInit] = pre.dir[PlannedInit]

C6_Witness ==
    /\ pc = "init_copy"
    /\ ~options.backup
    /\ Exists(pre.dir, PlannedInit)
    /\ ~Exists(dir, PlannedInit)
    /\ Exists(pre.rootBaks, PlannedInit)

\* C7: a run with the rename option whose consolidation succeeded, and which
\* no I/O fault interrupts, ends with the init file holding the content of
\* the consolidated file, and with the .bak of an init file that was there.
C7_RenameProducesInit ==
    (Ended /\ options.rename /\ Replaced /\ err # "OSError") =>
        /\ Exists(dir, PlannedInit)
        /\ dir[PlannedInit] = dir[OUTPUT_FILE]
        /\ Exists(pre.dir, PlannedInit) =>
            (Exists(rootBaks, PlannedInit)
             /\ rootBaks[PlannedInit] = pre.dir[PlannedInit])

\* The body the claim gives a block: the bytes of the source file, a newline
\* if they do not end with one, then a blank line.
ClaimedBody(bytes) ==
    bytes \o (IF ~EndsWithNewline(bytes) THEN <<"\n">> ELSE <<>>) \o <<"\n">>

RECURSIVE ClaimedBlocks(_, _)
ClaimedBlocks(files, d) ==
    IF files = <<>> THEN <<>>
    ELSE SectionHeader(Head(files)) \o ClaimedBody(d[Head(files)])
         \o ClaimedBlocks(Tail(files), d)

\* The names the claim counts as discovered, in ascending order.
ClaimedFiles ==
    SortNames({f \in DOMAIN pre.dir :
                 /\ IsMigration(f)
                 /\ options.rename => ~StartsWith(f, InitPrefix(options.timestamp))})

\* C8: the consolidated file of a successful run is the header followed by
\* one block per discovered file, in ascending order of the names, each with
\* the file's content, a newline if it did not end with one, and a blank line.
C8_BlocksReproduceSources ==
    Replaced =>
        \E t \in 0..MaxClock :
            dir[OUTPUT_FILE] = Header(ClaimedFiles, t) \o ClaimedBlocks(ClaimedFiles, pre.dir)

\* C9: when discovery finds nothing, the run is over and no file, backup root
\* or backup subdirectory was created, changed or removed.
C9_NoInputNoEffect ==
    (Discovered /\ migration_files = <<>>) =>
        /\ pc = "done"
        /\ dir = pre.dir
        /\ rootExists = pre.rootExists
        /\ subdirs = pre.subdirs
        /\ rootArtifacts = pre.rootArtifacts
        /\ rootBaks = pre.rootBaks
        /\ backup_subdir = NoDir
        /\ removed = {}

C9_Witness ==
    /\ pc = "done"
    /\ migration_files = <<>>
    /\ options.backup /\ options.delete /\ options.rename
    /\ Exists(dir, PlannedInit)
    /\ Exists(dir, OUTPUT_FILE)
    /\ ~rootExists

\* C10: once the backup stage has failed, the run is over: the directory is
\* as before the run (no temp file written, consolidated file and init file
\* untouched), nothing was added to the backup root outside this run's
\* subdirectory, and nothing was removed.
C10_BackupFailureAborts ==
    (failedAt \in BackupStages) =>
        /\ pc = "failed"
        /\ dir = pre.dir
        /\ rootArtifacts = pre.rootArtifacts
        /\ rootBaks = pre.rootBaks
        /\ removed = {}

C10_Witness ==
    /\ pc = "failed"
    /\ failedAt = "backup_copy"
    /\ idx = 2
    /\ options.delete /\ options.rename
    /\ Exists(dir, OUTPUT_FILE)

C10_WitnessExists ==
    /\ pc = "failed"
    /\ err = "FileExistsError"

----------------------------------------------------------------------------
(* Stages *)

ConsolidateStages == {"open_temp", "write_section", "old_dir", "old_copy", "move"}

DeleteStages == {"confirm", "delete"}

\* Discover, Backup, Consolidate, Rename, Delete, Done, numbered in that order.
StageOf(p) ==
    IF p = "discover" THEN 1
    ELSE IF p \in BackupStages THEN 2
    ELSE IF p \in ConsolidateStages THEN 3
    ELSE IF p \in RenameStages THEN 4
    ELSE IF p \in DeleteStages THEN 5
    ELSE IF p = "done" THEN 6
    ELSE 0

\* Two directories agree on every name outside names.
SameExcept(d1, d2, names) ==
    \A n \in (DOMAIN d1 \cup DOMAIN d2) \ names :
        Exists(d1, n) /\ Exists(d2, n) /\ d1[n] = d2[n]

\* A file that was there before the run is there with the same content.
Untouched(name) ==
    Exists(pre.dir, name) => (Exists(dir, name) /\ dir[name] = pre.dir[name])

\* C11: once the backup stage of a run with the backup option is over, this
\* run's backup subdirectory holds the discovered names and no other, each
\* with the content of the source file.
C11_BackupComplete ==
    (options.backup /\ migration_files # <<>> /\ StageOf(Position) >= 3) =>
        /\ backup_subdir \in DOMAIN subdirs
        /\ DOMAIN subdirs[backup_subdir] = Range(ClaimedFiles)
        /\ \A f \in Range(ClaimedFiles) : subdirs[backup_subdir][f] = pre.dir[f]

C11_Witness ==
    /\ pc = "open_temp"
    /\ options.backup
    /\ Len(migration_files) = 3
    /\ pre.subdirs # EmptyDir

\* C12: every step stays in its stage or moves to a later one; once an
\* exception is raised nothing runs; a step writes only what its stage
\* writes, so what earlier stages did is left as it is, also by the step
\* that fails; and a stage is entered only with the earlier ones done.
C12_StagesInOrder ==
    [][ /\ StageOf(Position') >= StageOf(Position)
        /\ failedAt # "none" => UNCHANGED <<pc, fs, removed>>
        /\ failedAt' # "none" => pc' = "failed"
        /\ StageOf(pc) <= 1 => UNCHANGED fs
        /\ pc \in BackupStages =>
            /\ UNCHANGED <<dir, rootArtifacts, rootBaks>>
        /\ pc \in ConsolidateStages =>
            /\ UNCHANGED <<subdirs, rootBaks>>
            /\ SameExcept(dir, dir', {TEMP_FILE, OUTPUT_FILE})
        /\ pc \in RenameStages =>
            /\ UNCHANGED <<rootExists, subdirs, rootArtifacts>>
            /\ SameExcept(dir, dir', {PlannedInit})
        /\ pc \in DeleteStages =>
            /\ UNCHANGED <<rootExists, subdirs, rootArtifacts, rootBaks>>
            /\ SameExcept(dir, dir', Range(migration_files))
        /\ StageOf(pc) < 5 => removed' = {}
        /\ (StageOf(Position') >= 3 /\ options'.backup /\ migration_files' # <<>>) =>
            /\ backup_subdir' \in DOMAIN subdirs'
            /\ DOMAIN subdirs'[backup_subdir'] = Range(migration_files')
        /\ (StageOf(Position') >= 4 /\ migration_files' # <<>>) =>
            /\ Exists(dir', OUTPUT_FILE)
            /\ ~Exists(dir', TEMP_FILE)
        /\ (StageOf(Position') >= 5 /\ options'.rename /\ migration_files' # <<>>) =>
            /\ Exists(dir', PlannedInit')
            /\ dir'[PlannedInit'] = dir'[OUTPUT_FILE]
      ]_vars

C12_Witness ==
    /\ pc = "failed"
    /\ failedAt = "init_copy"
    /\ backup_subdir \in DOMAIN subdirs
    /\ Exists(pre.dir, OUTPUT_FILE)
    /\ dir[OUTPUT_FILE] # pre.dir[OUTPUT_FILE]
    /\ ~Exists(pre.dir, PlannedInit)
    /\ Exists(dir, PlannedInit)

\* The answers whose lower-cased form is "y".
Yes == {<<"y">>, <<"Y">>}

\* C13: the prompt is shown only with delete and backup; files are removed
\* only after an answer whose lower-cased form is "y"; after any other
\* answer the run is over and no file of the migration directory or of the
\* backup root is created, changed or removed.
C13_OnlyYesDeletes ==
    [][ /\ pc = "confirm" => (options.delete /\ options.backup)
        /\ removed' # {} => confirmation' \in Yes
        /\ confirmation' \notin Yes \cup {NoAnswer} =>
            /\ UNCHANGED fs
            /\ removed' = {}
            /\ pc' = "done"
      ]_vars

C13_Witness ==
    /\ pc = "done"
    /\ confirmation = <<" ", "y">>
    /\ Len(migration_files) = 2

\* C14, as claimed: when the menu or the delete confirmation is answered, no
\* file that was there before the run has been overwritten or removed: the
\* consolidated file and an existing init file are as they were.
C14_PromptsBeforeDestruction ==
    pc \in {"menu", "confirm"} =>
        /\ Untouched(OUTPUT_FILE)
        /\ options.rename => Untouched(PlannedInit)

\* C14, amended: the menu is answered before the run has touched any file;
\* the delete confirmation is answered before any discovered migration file
\* is removed or changed, and after the consolidated file was replaced and
\* the init file written, with the replaced versions in the backup root.
C14_PromptsBeforeDeletion ==
    /\ pc = "menu" =>
        /\ dir = pre.dir
        /\ rootExists = pre.rootExists
        /\ subdirs = pre.subdirs
        /\ rootArtifacts = pre.rootArtifacts
        /\ rootBaks = pre.rootBaks
    /\ pc = "confirm" =>
        /\ removed = {}
        /\ \A f \in Range(ClaimedFiles) : Exists(dir, f) /\ dir[f] = pre.dir[f]
        /\ Replaced
        /\ Exists(pre.dir, OUTPUT_FILE) =>
            \E t \in DOMAIN rootArtifacts : rootArtifacts[t] = pre.dir[OUTPUT_FILE]
        /\ (options.rename /\ Exists(pre.dir, PlannedInit)) =>
            (Exists(rootBaks, PlannedInit)
             /\ rootBaks[PlannedInit] = pre.dir[PlannedInit])

C14_Witness ==
    /\ pc = "confirm"
    /\ Exists(pre.dir, OUTPUT_FILE)
    /\ dir[OUTPUT_FILE] # pre.dir[OUTPUT_FILE]
    /\ options.rename
    /\ Exists(pre.dir, PlannedInit)
    /\ dir[PlannedInit] # pre.dir[PlannedInit]

\* What the backup root held before the run is still there, unchanged.
Kept(before, now) == \A k \in DOMAIN before : Exists(now, k) /\ now[k] = before[k]

\* C15: a run that no I/O fault interrupts leaves every backup subdirectory,
\* every consolidated_migration_<ts>.sql and every .bak that earlier runs
\* wrote under the backup root as it was.
C15_BackupsOnlyAccumulate ==
    err # "OSError" =>
        /\ Kept(pre.subdirs, subdirs)
        /\ Kept(pre.rootArtifacts, rootArtifacts)
        /\ Kept(pre.rootBaks, rootBaks)

IsPrefix(a, b) == Len(a) <= Len(b) /\ SubSeq(b, 1, Len(a)) = a

\* C16: when a pass of the consolidation loop fails, the temp file is there
\* with the header and only part of the sections, every other file of the
\* directory is as before the run, no backup of the old consolidated file or
\* of an init file was taken, and nothing was removed.
C16_PartialTempLeft ==
    (pc = "failed" /\ failedAt = "write_section") =>
        /\ Exists(dir, TEMP_FILE)
        /\ \E t \in 0..MaxClock :
            LET head == WriteText(Header(migration_files, t))
                full == head \o AllSections(migration_files, pre.dir)
            IN  /\ IsPrefix(head, dir[TEMP_FILE])
                /\ IsPrefix(dir[TEMP_FILE], full)
                /\ dir[TEMP_FILE] # full
        /\ SameExcept(dir, pre.dir, {TEMP_FILE})
        /\ rootArtifacts = pre.rootArtifacts
        /\ rootBaks = pre.rootBaks
        /\ removed = {}
        /\ confirmation = NoAnswer

C16_Witness ==
    /\ pc = "failed"
    /\ failedAt = "write_section"
    /\ idx = 2
    /\ Exists(pre.dir, OUTPUT_FILE)
    /\ Exists(pre.dir, TEMP_FILE)
    /\ options.rename /\ options.delete /\ options.backup

\* C17: in the menu delete implies backup; choice 1 while delete is on
\* leaves backup on, choice 2 turning delete on leaves backup on, and any
\* other input changes neither backup nor delete.
C17_MenuKeepsInvariant ==
    pc = "menu" =>
        /\ options.delete => options.backup
        /\ \A input \in MenuInputs, answer \in TimestampInputs :
            LET choice == Strip(input)
                after == MenuChoice(options, choice, answer)
            IN  /\ (choice = <<"1">> /\ options.delete) => after.backup
                /\ (choice = <<"2">> /\ ~options.delete) =>
                        (after.delete /\ after.backup)
                /\ choice \notin {<<"1">>, <<"2">>} =>
                        (after.backup = options.backup /\ after.delete = options.delete)

C17_Witness ==
    /\ pc = "menu"
    /\ options.delete /\ options.backup /\ options.rename
    /\ options.timestamp = <<"8">>

\* C18: a step of the delete stage removes one file, which was discovered
\* at the start of the run and is neither the consolidated file, nor the temp
\* file, nor the backup directory, nor the init file of this run; every other
\* file of the directory and everything under the backup root stays.
C18_OnlyDiscoveredRemoved ==
    [][ removed' # removed =>
          LET gone == removed' \ removed
          IN  /\ gone \subseteq Range(ClaimedFiles)
              /\ \A f \in gone :
                    /\ f \notin {OUTPUT_FILE, TEMP_FILE, BACKUPS}
                    /\ options.rename => f # PlannedInit
              /\ dir' = [n \in DOMAIN dir \ gone |-> dir[n]]
              /\ Exists(dir', OUTPUT_FILE)
              /\ options.rename => Exists(dir', PlannedInit)
              /\ UNCHANGED <<rootExists, subdirs, rootArtifacts, rootBaks>>
      ]_vars

C18_Witness ==
    /\ pc = "done"
    /\ Len(migration_files) = 2
    /\ removed = Range(migration_files)
    /\ options.rename
    /\ Exists(pre.dir, PlannedInit)
    /\ Exists(dir, PlannedInit)

====
